---- MODULE Spec2Model ----
(***************************************************************************)
(* Ball pool and physics step of "TR Demo/BallScene.cpp".                  *)
(*                                                                         *)
(* Number representation.  The program computes in 32-bit floats; the      *)
(* model computes in fixed point on integer grids chosen so that one       *)
(* UpdatePhysics(1/60) integration step is exact:                          *)
(*   positions and radii : 1/180 pixel           (PosPerPx)                *)
(*   velocities          : 1/30 pixel per second (VelPerPx)                *)
(*   time                : 1/60 second           (TicksPerSec)             *)
(*   so GRAVITY * dt = 980/60 px/s = 490 units and v * dt = v/10 pos units *)
(*   masses              : 1/20 px^2             (MassPerUnit)             *)
(*   restitution, friction, damping factors : 1/1000 (Milli)               *)
(*   squash, glow        : 1/1000 (Milli)                                  *)
(*   rotAngle            : 1/180000 radian, so vx * dt * 0.01 = vx units   *)
(*   unit vectors and mass shares : 1/10000      (Fine)                    *)
(* A value stored into a Ball field is rounded to the nearest grid point   *)
(* (Round), as a float store rounds to the nearest representable value;    *)
(* temporaries of the pair resolver are kept Fine times finer.             *)
(***************************************************************************)
EXTENDS Integers, Naturals, Sequences, FiniteSets, TLC

VARIABLES
    s_active,      \* static bool s_active
    s_balls,       \* static Ball s_balls[MAX_BALLS], indexed 0..MAX_BALLS-1
    s_ballCount,   \* static int s_ballCount
    s_currentMaterial,
    pc,            \* position inside UpdatePhysics ("idle" outside of it)
    dt,            \* parameter of the running UpdatePhysics call, in ticks
    i, j,          \* loop indices of UpdatePhysics
    loc,           \* locals of the loop iteration UpdatePhysics executed last
    nFrames,       \* number of UpdatePhysics calls started
    nInits,        \* number of BallScene_Init calls
    hist,          \* per slot: the frame it was spawned in, its spawn velocity, whether
                   \* the body has met the floor, a wall or another body since, its
                   \* position when UpdatePhysics was last entered, and whether the
                   \* call before that one had returned with it at rest (history only)
    log,           \* what the running (or last) UpdatePhysics call has executed so far:
                   \* <<stage, i, j, contact>> per loop-body stage, j = -1 in the
                   \* first loop (history only)
    tick,          \* the value GetTickCount() returns, a DWORD
    nTicks,        \* number of times the tick count has advanced (history only)
    s_startTime,   \* static DWORD s_startTime
    lastSpawnTime, \* static DWORD lastSpawnTime of BallScene_Update
    autoSpawnMaterial, \* static int autoSpawnMaterial of BallScene_Update
    s_lastButtons, \* static WORD s_lastButtons, as the set of buttons held
    spawnRef,      \* the tick count at the last auto-spawn, or at BallScene_Init
                   \* if none has happened since (history only)
    g_demo,        \* static DemoState g_demo of main.cpp
    now,           \* main: DWORD now of the running loop iteration
    lastButtons,   \* main: WORD lastButtons, as the set of buttons held
    requestSkip,   \* main: bool requestSkip of the running loop iteration
    mpc            \* position inside the main loop: "top" before the scene
                   \* updates, "bottom" before UpdateDemoState

\* the statics of BallScene.cpp that only BallScene_Init and BallScene_Update write
sceneStatics == <<s_startTime, lastSpawnTime, autoSpawnMaterial, s_lastButtons, spawnRef>>

\* the tick count and the state of main.cpp
mainVars == <<tick, nTicks, g_demo, now, lastButtons, requestSkip, mpc>>

vars == <<s_active, s_balls, s_ballCount, s_currentMaterial, pc, dt, i, j, loc,
         nFrames, nInits, hist, log, sceneStatics, mainVars>>

-----------------------------------------------------------------------------
(* Grids *)
PosPerPx == 180
VelPerPx == 30
MassPerUnit == 20
Milli == 1000
Fine == 10000
TicksPerSec == 60

Abs(v) == IF v < 0 THEN -v ELSE v

\* a / b rounded to the nearest integer, ties away from zero (b > 0)
Round(a, b) == IF a >= 0 THEN (a + b \div 2) \div b ELSE -(((-a) + b \div 2) \div b)

\* a * b / c rounded to the nearest integer, without forming a * b
\* (0 <= b, 0 < c, b * c below 2^31)
MulDiv(a, b, c) ==
    LET m == Abs(a)
        r == (m \div c) * b + Round((m % c) * b, c)
    IN  IF a >= 0 THEN r ELSE -r

\* a * f / 1000 on the grid
MulMilli(a, f) == IF f >= 0 THEN MulDiv(a, f, Milli) ELSE -MulDiv(a, -f, Milli)

RECURSIVE SqrtIter(_, _, _)
SqrtIter(v, lo, hi) ==
    IF lo >= hi THEN lo
    ELSE LET mid == (lo + hi + 1) \div 2
         IN  IF mid * mid <= v THEN SqrtIter(v, mid, hi) ELSE SqrtIter(v, lo, mid - 1)

\* sqrtf(v) rounded to the nearest integer, 0 for v <= 0
SqrtSafe(v) ==
    IF v <= 0 THEN 0
    ELSE LET f == SqrtIter(v, 0, 46340)
         IN  IF v - f * f > f THEN f + 1 ELSE f

-----------------------------------------------------------------------------
(* Constants of BallScene.cpp *)
SCREEN_W == 640
MAX_BALLS == 16
GRAVITY == 980
FLOOR_Y == 420
COLLISION_SLOP == 90             \* 0.5 px
POSITION_CORRECT_PCT == 600      \* 0.60
RESTING_VEL_EPS == 180           \* 6.0 px/s
RESTING_DAMP == 800              \* 0.80

MAT_RUBBER == 0
MAT_CHROME == 1
MAT_GLASS == 2
MAT_PLASMA == 3
MAT_COUNT == 4
Materials == 0 .. (MAT_COUNT - 1)

FloorY == FLOOR_Y * PosPerPx
ScreenW == SCREEN_W * PosPerPx
GravityDt == (GRAVITY * VelPerPx) \div TicksPerSec

Clamp(v, min, max) == IF v < min THEN min ELSE IF v > max THEN max ELSE v

\* density in 1/20
MaterialDensity(mat) ==
    CASE mat = MAT_RUBBER -> 20
      [] mat = MAT_CHROME -> 48
      [] mat = MAT_GLASS  -> 32
      [] mat = MAT_PLASMA -> 13
      [] OTHER -> 20

MaterialRestitution(mat) ==
    CASE mat = MAT_RUBBER -> 850
      [] mat = MAT_CHROME -> 550
      [] mat = MAT_GLASS  -> 650
      [] mat = MAT_PLASMA -> 800

MaterialFriction(mat) ==
    CASE mat = MAT_RUBBER -> 920
      [] mat = MAT_CHROME -> 985
      [] mat = MAT_GLASS  -> 970
      [] mat = MAT_PLASMA -> 990

MaterialBaseColor(mat) ==
    CASE mat = MAT_RUBBER -> <<255, 200, 50, 50>>
      [] mat = MAT_CHROME -> <<255, 200, 200, 220>>
      [] mat = MAT_GLASS  -> <<128, 150, 200, 255>>
      [] mat = MAT_PLASMA -> <<255, 100, 255, 200>>

\* BallMass without "if (b.mass < 1.0f) b.mass = 1.0f"
BallMass_NoFloor(radius, mat) ==
    MulDiv(radius * radius, MaterialDensity(mat), PosPerPx * PosPerPx)

\* radius^2 * density, radius on the position grid, result on the mass grid
BallMass(radius, mat) ==
    LET dens == MaterialDensity(mat)
        m == MulDiv(radius * radius, dens, PosPerPx * PosPerPx)
    IN  IF m < MassPerUnit THEN MassPerUnit ELSE m

Slots == 0 .. (MAX_BALLS - 1)

\* a zero-initialised static Ball
ZeroBall ==
    [x |-> 0, y |-> 0, vx |-> 0, vy |-> 0, radius |-> 0, mass |-> 0,
     squashX |-> 0, squashY |-> 0, targetSquashX |-> 0, targetSquashY |-> 0,
     rotAngle |-> 0, material |-> 0, baseColor |-> <<0, 0, 0, 0>>,
     restitution |-> 0, friction |-> 0, glowIntensity |-> 0, active |-> FALSE]

NoLoc == [stage |-> "none"]

-----------------------------------------------------------------------------
(* SpawnBall *)

NewBall(x, y, vx, vy, radius, mat) ==
    [x |-> x, y |-> y, vx |-> vx, vy |-> vy, radius |-> radius,
     mass |-> BallMass(radius, mat),
     squashX |-> Milli, squashY |-> Milli,
     targetSquashX |-> Milli, targetSquashY |-> Milli,
     rotAngle |-> 0, material |-> mat, baseColor |-> MaterialBaseColor(mat),
     restitution |-> MaterialRestitution(mat), friction |-> MaterialFriction(mat),
     glowIntensity |-> 0, active |-> TRUE]

\* SpawnInto with the capacity test written "s_ballCount > MAX_BALLS"
SpawnInto_OffByOne(balls, count, x, y, vx, vy, radius, mat) ==
    IF count > MAX_BALLS
    THEN <<balls, count>>
    ELSE <<[k \in Slots |-> IF k = count THEN NewBall(x, y, vx, vy, radius, mat) ELSE balls[k]],
           count + 1>>

\* SpawnInto that recycles the last slot when the pool is full
SpawnInto_Recycle(balls, count, x, y, vx, vy, radius, mat) ==
    IF count >= MAX_BALLS
    THEN <<[balls EXCEPT ![MAX_BALLS - 1] = NewBall(x, y, vx, vy, radius, mat)], count>>
    ELSE <<[balls EXCEPT ![count] = NewBall(x, y, vx, vy, radius, mat)], count + 1>>

\* the pool <<balls, count>> after SpawnBall(x, y, vx, vy, radius, mat)
SpawnInto(balls, count, x, y, vx, vy, radius, mat) ==
    IF count >= MAX_BALLS
    THEN <<balls, count>>
    ELSE <<[balls EXCEPT ![count] = NewBall(x, y, vx, vy, radius, mat)], count + 1>>

-----------------------------------------------------------------------------
(* UpdatePhysics, first loop: one body *)

\* v * dt as a displacement on the position grid
Displacement(v, d) == Round(v * d * PosPerPx, VelPerPx * TicksPerSec)

\* Integrate that adds GRAVITY to vy without scaling it by dt
Integrate_NoDt(b, d) ==
    LET vy1 == b.vy + GRAVITY * VelPerPx
    IN  [b EXCEPT !.vy = vy1,
                  !.x = b.x + Displacement(b.vx, d),
                  !.y = b.y + Displacement(vy1, d),
                  !.rotAngle = b.rotAngle + b.vx * d]

\* Integrate that moves the body with the velocity it had before gravity
Integrate_ExplicitEuler(b, d) ==
    [b EXCEPT !.vy = b.vy + GravityDt * d,
              !.x = b.x + Displacement(b.vx, d),
              !.y = b.y + Displacement(b.vy, d),
              !.rotAngle = b.rotAngle + b.vx * d]

\* "Apply gravity", "Update position", "Update rotation"
Integrate(b, d) ==
    LET vy1 == b.vy + GravityDt * d
    IN  [b EXCEPT !.vy = vy1,
                  !.x = b.x + Displacement(b.vx, d),
                  !.y = b.y + Displacement(vy1, d),
                  !.rotAngle = b.rotAngle + b.vx * d]

SquashMult(mat) ==
    CASE mat = MAT_RUBBER -> 1500
      [] mat = MAT_GLASS  -> 300
      [] mat = MAT_CHROME -> 500
      [] mat = MAT_PLASMA -> 1200
      [] OTHER -> 1000

\* FloorBounce that also wears the body's friction down on each impact
FloorBounce_WearsFriction(b) ==
    [b EXCEPT !.vy = -MulMilli(b.vy, b.restitution),
              !.vx = MulMilli(b.vx, b.friction),
              !.friction = MulMilli(b.friction, RESTING_DAMP)]

\* FloorBounce with restitution and friction taken for one another
FloorBounce_Swapped(b) ==
    [b EXCEPT !.vy = -MulMilli(b.vy, b.friction),
              !.vx = MulMilli(b.vx, b.restitution)]

\* FloorBounce that applies the resting damping to every impact
FloorBounce_DampsAlways(b) ==
    [b EXCEPT !.vy = MulMilli(-MulMilli(b.vy, b.restitution), RESTING_DAMP),
              !.vx = MulMilli(MulMilli(b.vx, b.friction), RESTING_DAMP)]

\* the bounce of "Floor collision", taken when b.vy > 0
FloorBounce(b) ==
    LET preImpact == b.vy
        vy1 == -MulMilli(b.vy, b.restitution)
        vx1 == MulMilli(b.vx, b.friction)
        resting == Abs(preImpact) < 120 * VelPerPx /\ Abs(vy1) < RESTING_VEL_EPS
        vy2 == IF resting THEN MulMilli(vy1, RESTING_DAMP) ELSE vy1
        vx2 == IF resting THEN MulMilli(vx1, RESTING_DAMP) ELSE vx1
        vy3 == IF resting /\ Abs(vy2) < 2 * VelPerPx THEN 0 ELSE vy2
        vx3 == IF resting /\ Abs(vx2) < 2 * VelPerPx THEN 0 ELSE vx2
        impactSpeed == Abs(preImpact)
        baseSquash == Clamp(Round(impactSpeed * Milli, 500 * VelPerPx), 0, 500)
        squashAmount == MulMilli(baseSquash, SquashMult(b.material))
    IN  [b EXCEPT !.vy = vy3, !.vx = vx3,
                  !.targetSquashX = Milli + squashAmount,
                  !.targetSquashY = Milli - MulMilli(squashAmount, 700),
                  !.glowIntensity = Clamp(Round(impactSpeed * Milli, 300 * VelPerPx), 0, Milli)]

\* FloorTest that bounces whatever the sign of vy
FloorTest_AlwaysBounce(b) ==
    IF b.y + b.radius > FloorY
    THEN FloorBounce([b EXCEPT !.y = FloorY - b.radius])
    ELSE b

\* "Floor collision"
FloorTest(b) ==
    IF b.y + b.radius > FloorY
    THEN LET c == [b EXCEPT !.y = FloorY - b.radius]
         IN  IF c.vy > 0 THEN FloorBounce(c) ELSE c
    ELSE b

\* WallTest that rubs vx with the friction factor as the floor does
WallTest_Friction(b) ==
    LET l == IF b.x - b.radius < 0
             THEN [b EXCEPT !.x = b.radius,
                            !.vx = -MulMilli(MulMilli(b.vx, b.restitution), b.friction)]
             ELSE b
    IN  IF l.x + l.radius > ScreenW
        THEN [l EXCEPT !.x = ScreenW - l.radius,
                       !.vx = -MulMilli(MulMilli(l.vx, l.restitution), l.friction)]
        ELSE l

\* "Wall collisions"
WallTest(b) ==
    LET l == IF b.x - b.radius < 0
             THEN [b EXCEPT !.x = b.radius, !.vx = -MulMilli(b.vx, b.restitution)]
             ELSE b
    IN  IF l.x + l.radius > ScreenW
        THEN [l EXCEPT !.x = ScreenW - l.radius, !.vx = -MulMilli(l.vx, l.restitution)]
        ELSE l

\* "Stretch during flight", "Smoothly interpolate squash values",
\* "Gradually return to sphere", "Fade glow"
Visual(b) ==
    LET flying == b.y + b.radius < FloorY - 5 * PosPerPx
        stretchAmount == Clamp(Round(Abs(b.vy) * Milli, 800 * VelPerPx), 0, 300)
        tx0 == IF flying THEN Milli - MulMilli(stretchAmount, 500) ELSE b.targetSquashX
        ty0 == IF flying THEN Milli + stretchAmount ELSE b.targetSquashY
    IN  [b EXCEPT !.squashX = b.squashX + MulMilli(tx0 - b.squashX, 200),
                  !.squashY = b.squashY + MulMilli(ty0 - b.squashY, 200),
                  !.targetSquashX = tx0 + MulMilli(Milli - tx0, 100),
                  !.targetSquashY = ty0 + MulMilli(Milli - ty0, 100),
                  !.glowIntensity = MulMilli(b.glowIntensity, 950)]

\* y + radius >= FLOOR_Y - 0.5
OnFloor(b) == b.y + b.radius >= FloorY - PosPerPx \div 2

\* Cleanup that retires a body once it is hard-stopped
Cleanup_Despawn(b) ==
    IF 2 * Abs(b.vx) < 5 * VelPerPx /\ 2 * Abs(b.vy) < 5 * VelPerPx /\ OnFloor(b)
    THEN [b EXCEPT !.vx = 0, !.vy = 0, !.active = FALSE]
    ELSE b

\* Cleanup that stops a slow body wherever it is
Cleanup_Anywhere(b) ==
    IF 2 * Abs(b.vx) < 5 * VelPerPx /\ 2 * Abs(b.vy) < 5 * VelPerPx
    THEN [b EXCEPT !.vx = 0, !.vy = 0]
    ELSE b

\* "Hard stop very slow balls on the floor" (2.5 px/s)
Cleanup(b) ==
    IF 2 * Abs(b.vx) < 5 * VelPerPx /\ 2 * Abs(b.vy) < 5 * VelPerPx /\ OnFloor(b)
    THEN [b EXCEPT !.vx = 0, !.vy = 0]
    ELSE b

-----------------------------------------------------------------------------
(* UpdatePhysics, second loop: one pair (a = s_balls[i], b = s_balls[j]) *)

\* a * b / c for b of either sign
SMulDiv(a, b, c) == IF b >= 0 THEN MulDiv(a, b, c) ELSE -MulDiv(a, -b, c)

Max2(p, q) == IF p >= q THEN p ELSE q

\* dist2 >= minDist2, decided without forming a square that leaves 32 bits
NoOverlap(dx, dy, minDist) ==
    \/ Abs(dx) >= minDist
    \/ Abs(dy) >= minDist
    \/ dx * dx + dy * dy >= minDist * minDist

\* invMa / invSum and invMb / invSum, in 1/Fine.  invSum = 1/a.mass + 1/b.mass
\* is positive for the masses SpawnBall assigns (mass >= 1), so the branch
\* "if (invSum <= 0.0f) invSum = 1.0f" is never taken.
ShareA(a, b) == Round(b.mass * Fine, a.mass + b.mass)

\* ShareB that gives B the same part as A whatever the masses
ShareB_AsA(a, b) == Round(b.mass * Fine, a.mass + b.mass)

ShareB(a, b) == Round(a.mass * Fine, a.mass + b.mass)

\* <<length, unit x, unit y>> of the vector (vx, vy): the length in the units
\* of vx, the unit vector in 1/Fine.  The vector is first scaled (down by s or
\* up by u) so that its larger component is near 30000: the squares stay
\* within 32 bits and the square root keeps four digits.
UnitVector(vx, vy) ==
    LET m == Max2(Abs(vx), Abs(vy))
        s == m \div 30000 + 1
        u == IF m = 0 THEN 1 ELSE Max2(1, 30000 \div m)
        px == IF s > 1 THEN Round(vx, s) ELSE vx * u
        py == IF s > 1 THEN Round(vy, s) ELSE vy * u
        len == SqrtSafe(px * px + py * py)
    IN  IF len = 0 THEN <<0, 0, 0>>
        ELSE <<IF s > 1 THEN len * s ELSE Round(len, u),
               Round(px * Fine, len), Round(py * Fine, len)>>

\* the locals of a pair iteration that ended at "if (dist2 >= minDist2) continue"
SkipLocals ==
    [hit |-> FALSE, impulse |-> FALSE, degenerate |-> FALSE, nx |-> 0, ny |-> 0,
     dist |-> 0, overlap |-> 0, corr |-> 0, velAlongNormal |-> 0, e |-> 0, jn |-> 0,
     tLen |-> 0, tx |-> 0, ty |-> 0, jt |-> 0, maxF |-> 0, resting |-> FALSE]

\* Correct whose fallback normal for coincident centres is (0, 1)
Correct_FallbackDown(a, b) ==
    LET dx0 == b.x - a.x
        dy0 == b.y - a.y
        minDist == a.radius + b.radius
        n0 == UnitVector(dx0, dy0)
        dist0 == n0[1]
        degenerate == dist0 * 10000 < PosPerPx
        dist == IF degenerate THEN PosPerPx ELSE dist0
        nx == IF degenerate THEN 0 ELSE n0[2]
        ny == IF degenerate THEN Fine ELSE n0[3]
        overlap == minDist - dist
        corr0 == overlap - COLLISION_SLOP
        corr == (IF corr0 < 0 THEN 0 ELSE corr0) * POSITION_CORRECT_PCT
        ca == MulDiv(corr, ShareA(a, b), Fine)
        cb == MulDiv(corr, ShareB(a, b), Fine)
    IN  [a |-> [a EXCEPT !.x = a.x - Round(SMulDiv(ca, nx, Fine), Milli),
                         !.y = a.y - Round(SMulDiv(ca, ny, Fine), Milli)],
         b |-> [b EXCEPT !.x = b.x + Round(SMulDiv(cb, nx, Fine), Milli),
                         !.y = b.y + Round(SMulDiv(cb, ny, Fine), Milli)],
         degenerate |-> degenerate, nx |-> nx, ny |-> ny, dist |-> dist,
         overlap |-> overlap, corr |-> corr]

\* "Positional correction": the pair after lines 460-487 and the locals
\* nx, ny (1/Fine), dist, overlap (position grid), corr (position grid * Milli)
Correct(a, b) ==
    LET dx0 == b.x - a.x
        dy0 == b.y - a.y
        minDist == a.radius + b.radius
        n0 == UnitVector(dx0, dy0)
        dist0 == n0[1]
        degenerate == dist0 * 10000 < PosPerPx
        dist == IF degenerate THEN PosPerPx ELSE dist0
        nx == IF degenerate THEN Fine ELSE n0[2]
        ny == IF degenerate THEN 0 ELSE n0[3]
        overlap == minDist - dist
        corr0 == overlap - COLLISION_SLOP
        corr == (IF corr0 < 0 THEN 0 ELSE corr0) * POSITION_CORRECT_PCT
        ca == MulDiv(corr, ShareA(a, b), Fine)
        cb == MulDiv(corr, ShareB(a, b), Fine)
    IN  [a |-> [a EXCEPT !.x = a.x - Round(SMulDiv(ca, nx, Fine), Milli),
                         !.y = a.y - Round(SMulDiv(ca, ny, Fine), Milli)],
         b |-> [b EXCEPT !.x = b.x + Round(SMulDiv(cb, nx, Fine), Milli),
                         !.y = b.y + Round(SMulDiv(cb, ny, Fine), Milli)],
         degenerate |-> degenerate, nx |-> nx, ny |-> ny, dist |-> dist,
         overlap |-> overlap, corr |-> corr]

\* "Velocity along normal", in velocity grid / Fine
VelAlongNormal(a, b, nx, ny) == (b.vx - a.vx) * nx + (b.vy - a.vy) * ny

\* ImpulseScalar that takes every contact for perfectly elastic (e = 1)
ImpulseScalar_Elastic(velAlongNormal, e) == MulDiv(-velAlongNormal, 2 * Milli, Milli)

\* "Impulse scalar": jn * invSum = -(1 + e) * velAlongNormal, in velocity
\* grid / Fine.  Impulses are carried multiplied by invSum (> 0): the velocity
\* changes are impulse * invMass = (impulse * invSum) * (invMass / invSum).
ImpulseScalar(velAlongNormal, e) == MulDiv(-velAlongNormal, Milli + e, Milli)

\* ApplyImpulse that forgets the factor invMass
ApplyImpulse_NoInvMass(v, imp, n, share) == v - Round(SMulDiv(imp, n, Fine), Fine)

\* v - impulse * n * invMass, rounded to the velocity grid
ApplyImpulse(v, imp, n, share) == v - Round(MulDiv(SMulDiv(imp, n, Fine), share, Fine), Fine)

\* "Kill tiny jitter when both are essentially resting on the floor"
KillJitter(v) == IF Abs(v) < 2 * VelPerPx THEN 0 ELSE v

\* RestingPair that is content with one body on the floor
RestingPair_Either(a, b) == OnFloor(a) \/ OnFloor(b)

\* "aOnFloor && bOnFloor" (lines 549-551)
RestingPair(a, b) == OnFloor(a) /\ OnFloor(b)

\* FrictionImpulse without "Clamp friction by normal impulse magnitude"
FrictionImpulse_Unclamped(velAlongT, maxF) == -velAlongT

\* jt * invSum = -velAlongT, clamped to [-maxF, maxF] (lines 532-538)
FrictionImpulse(velAlongT, maxF) == Clamp(-velAlongT, -maxF, maxF)

\* Separating that lets every overlapping pair through to the impulse
Separating_Never(velAlongNormal) == FALSE

\* "If they are separating, do nothing"
Separating(velAlongNormal) == velAlongNormal > 0

\* lines 489-557 for a pair that was corrected to c (a record of Correct)
Impulse(c) ==
    LET a == c.a
        b == c.b
        nx == c.nx
        ny == c.ny
        rvx == b.vx - a.vx
        rvy == b.vy - a.vy
        velAlongNormal == VelAlongNormal(a, b, nx, ny)
        e == IF a.restitution < b.restitution THEN a.restitution ELSE b.restitution
        jn == ImpulseScalar(velAlongNormal, e)
        wa == ShareA(a, b)
        wb == ShareB(a, b)
        avx1 == ApplyImpulse(a.vx, jn, nx, wa)
        avy1 == ApplyImpulse(a.vy, jn, ny, wa)
        bvx1 == ApplyImpulse(b.vx, -jn, nx, wb)
        bvy1 == ApplyImpulse(b.vy, -jn, ny, wb)
        tvx == rvx * Fine - SMulDiv(velAlongNormal, nx, Fine)
        tvy == rvy * Fine - SMulDiv(velAlongNormal, ny, Fine)
        t == UnitVector(tvx, tvy)
        tLen == t[1]
        slides == tLen > (VelPerPx * Fine) \div 10000     \* tLen > 0.0001
        tx == t[2]
        ty == t[3]
        velAlongT == rvx * tx + rvy * ty
        mu == MulMilli(a.friction, b.friction)
        maxF == MulDiv(Abs(jn), Milli - mu, Milli)
        jt == FrictionImpulse(velAlongT, maxF)
        avx2 == IF slides THEN ApplyImpulse(avx1, jt, tx, wa) ELSE avx1
        avy2 == IF slides THEN ApplyImpulse(avy1, jt, ty, wa) ELSE avy1
        bvx2 == IF slides THEN ApplyImpulse(bvx1, -jt, tx, wb) ELSE bvx1
        bvy2 == IF slides THEN ApplyImpulse(bvy1, -jt, ty, wb) ELSE bvy1
        resting == RestingPair(a, b)
    IN  IF Separating(velAlongNormal)
        THEN [a |-> a, b |-> b,
              locals |-> [SkipLocals EXCEPT !.hit = TRUE, !.degenerate = c.degenerate,
                              !.nx = nx, !.ny = ny, !.dist = c.dist, !.overlap = c.overlap,
                              !.corr = c.corr, !.velAlongNormal = velAlongNormal]]
        ELSE [a |-> [a EXCEPT !.vx = IF resting THEN KillJitter(avx2) ELSE avx2,
                              !.vy = IF resting THEN KillJitter(avy2) ELSE avy2],
              b |-> [b EXCEPT !.vx = IF resting THEN KillJitter(bvx2) ELSE bvx2,
                              !.vy = IF resting THEN KillJitter(bvy2) ELSE bvy2],
              locals |-> [hit |-> TRUE, impulse |-> TRUE, degenerate |-> c.degenerate,
                          nx |-> nx, ny |-> ny, dist |-> c.dist, overlap |-> c.overlap,
                          corr |-> c.corr, velAlongNormal |-> velAlongNormal, e |-> e,
                          jn |-> jn, tLen |-> tLen, tx |-> tx, ty |-> ty,
                          jt |-> IF slides THEN jt ELSE 0, maxF |-> maxF,
                          resting |-> resting]]

\* ResolvePair without "if (dist2 >= minDist2) continue"
ResolvePair_NoSkip(a, b) ==
    IF ~a.active \/ ~b.active
    THEN [a |-> a, b |-> b, locals |-> SkipLocals]
    ELSE Impulse(Correct(a, b))

\* one iteration of the inner loop of "Ball-to-ball collisions"
ResolvePair(a, b) ==
    IF ~a.active \/ ~b.active \/ NoOverlap(b.x - a.x, b.y - a.y, a.radius + b.radius)
    THEN [a |-> a, b |-> b, locals |-> SkipLocals]
    ELSE Impulse(Correct(a, b))

-----------------------------------------------------------------------------
(* Exploration bounds *)
MaxFrames == 3       \* UpdatePhysics calls in a behaviour
MaxInits == 1        \* BallScene_Init calls in a behaviour
MaxPhysBalls == 4    \* UpdatePhysics is explored for pools of at most this size
FreeSpawn == 2       \* SpawnBall arguments are chosen freely below this count

Px(n) == n * PosPerPx      \* n pixels
PxS(n) == n * VelPerPx     \* n pixels per second

\* SpawnBall arguments <<x, y, vx, vy, radius, material>>
SpawnArgs ==
    << <<Px(320), Px(50), 0, 0, Px(30), MAT_RUBBER>>,
       <<Px(40), Px(388), PxS(-300), PxS(240), Px(30), MAT_PLASMA>>,
       <<Px(70), Px(380), PxS(90), PxS(-10), Px(40), MAT_CHROME>>,
       <<Px(640) - 72, Px(419), PxS(1), PxS(-15), PosPerPx \div 2, MAT_GLASS>> >>

ArgsAt(count) ==
    IF count < FreeSpawn \/ count >= MAX_BALLS
    THEN {SpawnArgs[k] : k \in 1 .. Len(SpawnArgs)}
    ELSE {SpawnArgs[(count % Len(SpawnArgs)) + 1]}

FrameDt == 1         \* UpdatePhysics(1.0f / 60.0f)

-----------------------------------------------------------------------------
(* Tick counts *)

\* a DWORD is kept as <<high, low>>, its two 16-bit halves
Half == 65536

DwZero == <<0, 0>>

\* the DWORD of a number below 2^31
DwOf(n) == <<n \div Half, n % Half>>

\* a + b and a - b of two DWORDs, modulo 2^32
DwAdd(a, b) ==
    LET lo == a[2] + b[2]
    IN  <<(a[1] + b[1] + (lo \div Half)) % Half, lo % Half>>

DwSub(a, b) ==
    LET lo == a[2] - b[2]
    IN  <<(a[1] - b[1] - (IF lo < 0 THEN 1 ELSE 0)) % Half, lo % Half>>

\* a < b of two DWORDs
DwLess(a, b) == a[1] < b[1] \/ (a[1] = b[1] /\ a[2] < b[2])

\* the buttons the pad reports, a WORD of bits kept as the set of buttons held
BTN_A == "A"
BTN_X == "X"
BTN_Y == "Y"

\* the statics of BallScene.cpp as the loader leaves them
StaticsInit ==
    /\ s_startTime = DwZero
    /\ lastSpawnTime = DwZero
    /\ autoSpawnMaterial = 0
    /\ s_lastButtons = {}
    /\ spawnRef = DwZero

\* "static DemoState g_demo = {}"
ZeroDemo ==
    [current |-> 0, next |-> 0, inTransition |-> FALSE, transitionPhase |-> 0,
     sceneStartTicks |-> DwZero, transitionStartTicks |-> DwZero, overlayAlpha |-> 0]

\* main.cpp before main has run, the tick count being t
MainIdle(t) ==
    /\ tick = t
    /\ nTicks = 0
    /\ g_demo = ZeroDemo
    /\ now = DwZero
    /\ lastButtons = {}
    /\ requestSkip = FALSE
    /\ mpc = "top"

-----------------------------------------------------------------------------
(* State machine *)

\* the statics of the ball pool as the loader leaves them, UpdatePhysics not running
PoolIdle ==
    /\ s_active = FALSE
    /\ s_balls = [k \in 0 .. (MAX_BALLS - 1) |-> ZeroBall]
    /\ s_ballCount = 0
    /\ s_currentMaterial = 0
    /\ pc = "idle"
    /\ dt = 0
    /\ i = 0
    /\ j = 0
    /\ loc = NoLoc
    /\ nFrames = 0
    /\ nInits = 0
    /\ hist = [k \in 0 .. (MAX_BALLS - 1) |->
                  [born |-> 0, touched |-> FALSE, vx0 |-> 0, vy0 |-> 0, fx |-> 0, fy |-> 0,
                   rest |-> FALSE]]
    /\ log = <<>>

Init == PoolIdle /\ StaticsInit /\ MainIdle(DwZero)

SpawnBall(x, y, vx, vy, radius, mat) ==
    /\ pc = "idle"
    /\ LET r == SpawnInto(s_balls, s_ballCount, x, y, vx, vy, radius, mat)
       IN  /\ s_balls' = r[1]
           /\ s_ballCount' = r[2]
    /\ loc' = [stage |-> "spawn", count |-> s_ballCount,
               args |-> <<x, y, vx, vy, radius, mat>>]
    /\ hist' = IF s_ballCount < MAX_BALLS
               THEN [hist EXCEPT ![s_ballCount] =
                         [born |-> nFrames, touched |-> FALSE, vx0 |-> vx, vy0 |-> vy,
                          fx |-> x, fy |-> y, rest |-> FALSE]]
               ELSE hist
    /\ UNCHANGED <<sceneStatics, mainVars>>
    /\ UNCHANGED <<s_active, s_currentMaterial, pc, dt, i, j, nFrames, nInits, log>>

Spawn ==
    \E p \in ArgsAt(s_ballCount) : SpawnBall(p[1], p[2], p[3], p[4], p[5], p[6])

\* BallScene_Init: the pool after s_ballCount = 0 and the four SpawnBall calls
InitialBalls ==
    LET s1 == SpawnInto(s_balls, 0, Px(150), Px(80), PxS(200), 0, Px(45), MAT_RUBBER)
        s2 == SpawnInto(s1[1], s1[2], Px(400), Px(120), PxS(-150), 0, Px(40), MAT_CHROME)
        s3 == SpawnInto(s2[1], s2[2], Px(300), Px(50), PxS(100), 0, Px(35), MAT_GLASS)
    IN  SpawnInto(s3[1], s3[2], Px(500), Px(100), PxS(-100), PxS(50), Px(30), MAT_PLASMA)

BallScene_InitBody ==
    /\ pc = "idle"
    /\ s_active' = TRUE
    /\ s_startTime' = tick
    /\ spawnRef' = tick
    /\ s_currentMaterial' = 0
    /\ s_balls' = InitialBalls[1]
    /\ s_ballCount' = InitialBalls[2]
    /\ loc' = [stage |-> "init"]
    /\ nInits' = nInits + 1
    /\ hist' = [k \in 0 .. (MAX_BALLS - 1) |->
                 IF k < 4
                 THEN [born |-> nFrames, touched |-> FALSE,
                       vx0 |-> InitialBalls[1][k].vx, vy0 |-> InitialBalls[1][k].vy,
                       fx |-> InitialBalls[1][k].x, fy |-> InitialBalls[1][k].y,
                       rest |-> FALSE]
                 ELSE hist[k]]
    /\ UNCHANGED <<pc, dt, i, j, nFrames, log, lastSpawnTime, autoSpawnMaterial, s_lastButtons>>

\* BallScene_Init called on its own
BallScene_Init == BallScene_InitBody /\ UNCHANGED mainVars

\* UpdatePhysics has just returned
Returned == pc = "idle" /\ loc.stage = "for_pair"

\* no other live body overlaps body k
Alone(k) ==
    \A m \in 0 .. (s_ballCount - 1) :
        (m # k /\ s_balls[m].active)
        => NoOverlap(s_balls[m].x - s_balls[k].x, s_balls[m].y - s_balls[k].y,
                     s_balls[m].radius + s_balls[k].radius)

\* body k lies on the floor with no velocity
AtRest(k) ==
    /\ s_balls[k].active
    /\ s_balls[k].vx = 0 /\ s_balls[k].vy = 0
    /\ s_balls[k].y = FloorY - s_balls[k].radius

\* the last UpdatePhysics call has returned with body k at rest on the floor
\* and touched by no other body
RestsAlone(k) == Returned /\ k < s_ballCount /\ Alone(k) /\ AtRest(k)

\* entry of UpdatePhysics(d): "for (int i = 0; ..."
UpdatePhysics(d) ==
    /\ pc = "idle"
    /\ pc' = "for_body"
    /\ dt' = d
    /\ i' = 0
    /\ loc' = [stage |-> "enter"]
    /\ nFrames' = nFrames + 1
    /\ hist' = [k \in 0 .. (MAX_BALLS - 1) |->
                 [hist[k] EXCEPT !.fx = s_balls[k].x, !.fy = s_balls[k].y,
                                 !.rest = RestsAlone(k)]]
    /\ log' = <<>>
    /\ UNCHANGED <<sceneStatics, mainVars>>
    /\ UNCHANGED <<s_active, s_balls, s_ballCount, s_currentMaterial, j, nInits>>

\* "i < s_ballCount" and "if (!b.active) continue" of the first loop; past its
\* end, the initialisation of the second loop
ForBody ==
    /\ pc = "for_body"
    /\ IF i < s_ballCount
       THEN IF s_balls[i].active
            THEN pc' = "integrate" /\ UNCHANGED <<i, j>>
            ELSE i' = i + 1 /\ UNCHANGED <<pc, j>>
       ELSE pc' = "for_pair" /\ i' = 0 /\ j' = 1
    /\ loc' = [stage |-> "for_body"]
    /\ UNCHANGED <<sceneStatics, mainVars>>
    /\ UNCHANGED <<s_active, s_balls, s_ballCount, s_currentMaterial, dt, nFrames, nInits,
                   hist, log>>

\* a stage of the first loop's body: ball i becomes f, control moves to next;
\* contact tells whether the stage's collision test fired
BodyStage(here, f, next, contact) ==
    /\ pc = here
    /\ s_balls' = [s_balls EXCEPT ![i] = f]
    /\ loc' = [stage |-> here, i |-> i, pre |-> s_balls[i]]
    /\ pc' = next
    /\ hist' = IF contact THEN [hist EXCEPT ![i].touched = TRUE] ELSE hist
    /\ log' = Append(log, <<here, i, -1, contact>>)
    /\ UNCHANGED <<sceneStatics, mainVars>>
    /\ UNCHANGED <<s_active, s_ballCount, s_currentMaterial, dt, j, nFrames, nInits>>

HitsFloor(b) == b.y + b.radius > FloorY
HitsWall(b) == b.x - b.radius < 0 \/ b.x + b.radius > ScreenW

IntegrateStep ==
    BodyStage("integrate", Integrate(s_balls[i], dt), "floor", FALSE) /\ UNCHANGED i
FloorStep ==
    BodyStage("floor", FloorTest(s_balls[i]), "wall", HitsFloor(s_balls[i])) /\ UNCHANGED i
WallStep ==
    BodyStage("wall", WallTest(s_balls[i]), "visual", HitsWall(s_balls[i])) /\ UNCHANGED i
VisualStep ==
    BodyStage("visual", Visual(s_balls[i]), "cleanup", FALSE) /\ UNCHANGED i
CleanupStep ==
    BodyStage("cleanup", Cleanup(s_balls[i]), "for_body", FALSE) /\ i' = i + 1

\* ForPair whose inner loop starts at j = i + 2
ForPair_SkipsNeighbour ==
    /\ pc = "for_pair"
    /\ IF i < s_ballCount
       THEN IF j < s_ballCount
            THEN pc' = "pair" /\ UNCHANGED <<i, j>>
            ELSE i' = i + 1 /\ j' = i + 3 /\ UNCHANGED pc
       ELSE pc' = "idle" /\ UNCHANGED <<i, j>>
    /\ loc' = [stage |-> "for_pair"]
    /\ UNCHANGED <<sceneStatics, mainVars>>
    /\ UNCHANGED <<s_active, s_balls, s_ballCount, s_currentMaterial, dt, nFrames, nInits,
                   hist, log>>

\* the loop tests of "Ball-to-ball collisions"; past the end, UpdatePhysics returns
ForPair ==
    /\ pc = "for_pair"
    /\ IF i < s_ballCount
       THEN IF j < s_ballCount
            THEN pc' = "pair" /\ UNCHANGED <<i, j>>
            ELSE i' = i + 1 /\ j' = i + 2 /\ UNCHANGED pc
       ELSE pc' = "idle" /\ UNCHANGED <<i, j>>
    /\ loc' = [stage |-> "for_pair"]
    /\ UNCHANGED <<sceneStatics, mainVars>>
    /\ UNCHANGED <<s_active, s_balls, s_ballCount, s_currentMaterial, dt, nFrames, nInits,
                   hist, log>>

\* the body of the inner loop for the pair (i, j)
PairStep ==
    /\ pc = "pair"
    /\ LET r == ResolvePair(s_balls[i], s_balls[j])
       IN  /\ s_balls' = [s_balls EXCEPT ![i] = r.a, ![j] = r.b]
           /\ loc' = [stage |-> "pair", i |-> i, j |-> j,
                      a0 |-> s_balls[i], b0 |-> s_balls[j], locals |-> r.locals]
           /\ hist' = IF r.locals.hit
                      THEN [hist EXCEPT ![i].touched = TRUE, ![j].touched = TRUE]
                      ELSE hist
           /\ log' = Append(log, <<"pair", i, j, loc'.locals.hit>>)
    /\ pc' = "for_pair"
    /\ j' = j + 1
    /\ UNCHANGED <<sceneStatics, mainVars>>
    /\ UNCHANGED <<s_active, s_ballCount, s_currentMaterial, dt, i, nFrames, nInits>>

Step ==
    \/ ForBody
    \/ IntegrateStep
    \/ FloorStep
    \/ WallStep
    \/ VisualStep
    \/ CleanupStep
    \/ ForPair
    \/ PairStep

Next ==
    \/ Spawn
    \/ (nInits < MaxInits /\ nFrames = 0 /\ BallScene_Init)
    \/ (/\ nFrames < MaxFrames
        /\ s_ballCount <= MaxPhysBalls \/ (s_ballCount = MAX_BALLS /\ nFrames = 0)
        /\ UpdatePhysics(FrameDt))
    \/ Step

Spec == Init /\ [][Next]_vars

-----------------------------------------------------------------------------
(* One or two bodies dropped from rest, apart from one another, into an empty pool *)
DropFrames == 56

\* SpawnBall arguments of the dropped bodies, within the ranges BallScene_Update
\* draws them from
DropArgs ==
    { <<Px(320), Px(50), 0, 0, Px(30), MAT_RUBBER>>,
      <<Px(200), Px(149), 0, 0, Px(25), MAT_CHROME>>,
      <<Px(100), Px(100), 0, 0, Px(49), MAT_GLASS>>,
      <<Px(539), Px(60), 0, 0, Px(40), MAT_PLASMA>> }

NextDrop ==
    \/ (/\ s_ballCount < 2 /\ nFrames = 0
        /\ \E p \in DropArgs :
              /\ \A k \in 0 .. (s_ballCount - 1) : s_balls[k].x # p[1]
              /\ SpawnBall(p[1], p[2], p[3], p[4], p[5], p[6]))
    \/ (s_ballCount >= 1 /\ nFrames < DropFrames /\ UpdatePhysics(FrameDt))
    \/ Step

SpecDrop == Init /\ [][NextDrop]_vars

-----------------------------------------------------------------------------
(* The demo's own run: BallScene_Init, then one UpdatePhysics per frame *)
SceneFrames == 300

NextScene ==
    \/ (nInits = 0 /\ BallScene_Init)
    \/ (nInits > 0 /\ nFrames < SceneFrames /\ UpdatePhysics(FrameDt))
    \/ Step

SpecScene == Init /\ [][NextScene]_vars

-----------------------------------------------------------------------------
(* Bodies spawned rising, as a body is after a bounce: within a few frames they
   pass the top of their flight, where they are slow and off the floor *)

TossFrames == 6

\* SpawnBall arguments: two bodies that rise and turn in the air, one that
\* creeps just above the floor line, one that is never slow
TossArgs ==
    { <<Px(320), Px(200), 0, PxS(-50), Px(30), MAT_RUBBER>>,
      <<Px(500), Px(300), PxS(2), PxS(-33), Px(25), MAT_CHROME>>,
      <<Px(100), Px(390) - 54, PxS(1), PxS(-15), Px(30), MAT_GLASS>>,
      <<Px(200), Px(100), PxS(-100), 0, Px(40), MAT_PLASMA>> }

NextToss ==
    \/ (/\ s_ballCount < 2 /\ nFrames = 0
        /\ \E p \in TossArgs :
              /\ \A k \in 0 .. (s_ballCount - 1) : s_balls[k].x # p[1]
              /\ SpawnBall(p[1], p[2], p[3], p[4], p[5], p[6]))
    \/ (s_ballCount >= 1 /\ nFrames < TossFrames /\ UpdatePhysics(FrameDt))
    \/ Step

SpecToss == Init /\ [][NextToss]_vars

-----------------------------------------------------------------------------
(* Bodies laid on the floor at rest, one of each material, far from each other
   and from the walls: the calls that follow are what a body that has come to
   rest goes through *)

RestFrames == 8

\* SpawnBall arguments: y + radius = FLOOR_Y, no velocity
RestArgs ==
    { <<Px(100), Px(390), 0, 0, Px(30), MAT_RUBBER>>,
      <<Px(250), Px(390), 0, 0, Px(30), MAT_CHROME>>,
      <<Px(400), Px(390), 0, 0, Px(30), MAT_GLASS>>,
      <<Px(550), Px(390), 0, 0, Px(30), MAT_PLASMA>> }

NextRest ==
    \/ (/\ s_ballCount < 2 /\ nFrames = 0
        /\ \E p \in RestArgs :
              /\ \A k \in 0 .. (s_ballCount - 1) : s_balls[k].x # p[1]
              /\ SpawnBall(p[1], p[2], p[3], p[4], p[5], p[6]))
    \/ (s_ballCount >= 1 /\ nFrames < RestFrames /\ UpdatePhysics(FrameDt))
    \/ Step

SpecRest == Init /\ [][NextRest]_vars

-----------------------------------------------------------------------------
(* The pair resolver applied to two equal bodies of restitution 1.0, the upper
   end of the range documented for Ball::restitution, which no material of
   SpawnBall has: the pair meets head-on along its contact normal *)

\* directions of the contact normal, in fifths
ElasticDirs ==
    { <<5, 0>>, <<-5, 0>>, <<0, 5>>, <<0, -5>>, <<3, 4>>, <<-4, 3>>, <<4, -3>>, <<-3, -4>> }

\* approach speeds of each body, on the velocity grid (1.67, 2.5, 100, 300 px/s)
ElasticSpeeds == {50, 75, 3000, 9000}

\* body A of the pair: on the floor or in the air
ElasticPlaces == { <<Px(300), FloorY - Px(30)>>, <<Px(300), Px(200)>> }

ElasticBody(x, y, vx, vy, mat) ==
    [NewBall(x, y, vx, vy, Px(30), mat) EXCEPT !.restitution = Milli]

\* the pair: centres 50 px apart along the direction, A moving along it and B
\* against it, both above the floor
InitElastic ==
    /\ s_active = TRUE
    /\ \E pr \in {<<e[1][1], e[1][2], e[2], e[3]>> :
                    e \in (ElasticPlaces \X ElasticDirs) \X ElasticSpeeds \X Materials} :
          LET x == pr[1][1]
              y == pr[1][2]
              d == pr[2]
              u == pr[3]
              m == pr[4]
          IN  /\ y + Px(10) * d[2] + Px(30) <= FloorY
              /\ s_balls = [k \in 0 .. (MAX_BALLS - 1) |->
                    IF k = 0
                    THEN ElasticBody(x, y, (u * d[1]) \div 5, (u * d[2]) \div 5, m)
                    ELSE IF k = 1
                    THEN ElasticBody(x + Px(10) * d[1], y + Px(10) * d[2],
                                     -((u * d[1]) \div 5), -((u * d[2]) \div 5), m)
                    ELSE ZeroBall]
    /\ s_ballCount = 2
    /\ s_currentMaterial = 0
    /\ pc = "pair"
    /\ dt = FrameDt
    /\ i = 0
    /\ j = 1
    /\ loc = [stage |-> "for_pair"]
    /\ nFrames = 1
    /\ nInits = 1
    /\ hist = [k \in 0 .. (MAX_BALLS - 1) |->
                  [born |-> 0, touched |-> FALSE, vx0 |-> 0, vy0 |-> 0,
                   fx |-> s_balls[k].x, fy |-> s_balls[k].y, rest |-> FALSE]]
    /\ log = <<>>
    /\ StaticsInit
    /\ MainIdle(DwZero)

NextElastic ==
    \/ PairStep
    \/ ForPair

SpecElastic == InitElastic /\ [][NextElastic]_vars

-----------------------------------------------------------------------------
(* Properties of the pool *)

Live == {k \in Slots : k < s_ballCount}

\* C1: in every reachable state the pool count lies between 0 and MAX_BALLS.
C1_CountInRange == 0 <= s_ballCount /\ s_ballCount <= MAX_BALLS

\* the count reached MAX_BALLS by a spawn into the last free slot
C1_Witness == loc.stage = "spawn" /\ loc.count = MAX_BALLS - 1 /\ s_ballCount = MAX_BALLS

\* C2: SpawnBall on a pool that holds MAX_BALLS bodies changes neither the
\* count nor any field of any body, whatever its arguments.
C2_SpawnAtCapacityNoOp ==
    [][(loc'.stage = "spawn" /\ s_ballCount = MAX_BALLS)
        => (s_ballCount' = s_ballCount /\ s_balls' = s_balls)]_vars

\* SpawnBall has returned from a call made at capacity
C2_Witness == loc.stage = "spawn" /\ loc.count = MAX_BALLS /\ nFrames > 0

\* C3: SpawnBall below capacity increases the count by one, writes the new body
\* at the old count with the given position, velocity, radius and material and
\* with mass max(1, radius^2 * density(material)), and leaves the bodies
\* spawned before unchanged.
C3_SpawnAppends ==
    [][(loc'.stage = "spawn" /\ s_ballCount < MAX_BALLS)
        => LET n == s_ballCount
               a == loc'.args
               b == s_balls'[n]
           IN  /\ s_ballCount' = n + 1
               /\ <<b.x, b.y, b.vx, b.vy, b.radius, b.material>> = a
               /\ b.mass = Max2(MassPerUnit,
                                MulDiv(a[5] * a[5], MaterialDensity(a[6]), PosPerPx * PosPerPx))
               /\ b.mass >= MassPerUnit
               /\ \A k \in Slots : k < n => s_balls'[k] = s_balls[k]]_vars

\* a body was appended behind bodies that UpdatePhysics has moved, and its
\* mass was raised to 1
C3_Witness ==
    /\ loc.stage = "spawn" /\ loc.count \in 1 .. (MAX_BALLS - 1) /\ nFrames > 0
    /\ s_balls[loc.count].mass = MassPerUnit
    /\ loc.args[5] * loc.args[5] * MaterialDensity(loc.args[6]) < PosPerPx * PosPerPx * MassPerUnit

Fixed(b) == <<b.radius, b.mass, b.material, b.restitution, b.friction>>

\* C4: UpdatePhysics changes no body's radius, mass, material, restitution or
\* friction, and restitution and friction are the material's constants, in [0,1].
C4_FixedFields ==
    /\ [](\A k \in Live :
            /\ s_balls[k].restitution = MaterialRestitution(s_balls[k].material)
            /\ s_balls[k].friction = MaterialFriction(s_balls[k].material)
            /\ s_balls[k].restitution \in 0 .. Milli
            /\ s_balls[k].friction \in 0 .. Milli)
    /\ [][(pc # "idle" \/ loc'.stage = "enter")
           => \A k \in Slots : Fixed(s_balls'[k]) = Fixed(s_balls[k])]_vars

\* a pair has received an impulse on the floor after a bounce
C4_Witness ==
    /\ loc.stage = "pair" /\ loc.locals.impulse
    /\ \E k \in Live : hist[k].touched /\ s_balls[k].glowIntensity > 0

Identity(b) == <<b.radius, b.mass, b.material, b.baseColor, b.restitution, b.friction>>

\* C5: between one BallScene_Init and the next the count never decreases, and a
\* body below the count stays in its slot, active.
C5_NoRemoval ==
    /\ [](\A k \in Live : s_balls[k].active)
    /\ [][loc'.stage # "init"
           => /\ s_ballCount' >= s_ballCount
              /\ \A k \in Live : /\ s_balls'[k].active
                                 /\ Identity(s_balls'[k]) = Identity(s_balls[k])]_vars

\* a body that met the floor, a wall or another body kept its slot through a
\* later spawn
C5_Witness ==
    /\ loc.stage = "spawn" /\ loc.count > 0 /\ loc.count < MAX_BALLS /\ nFrames > 1
    /\ \E k \in Live : k < loc.count /\ hist[k].touched

-----------------------------------------------------------------------------
(* Properties of the integrator and of the floor test *)

\* C6: a body spawned with vx = vy = 0 that has met neither the floor, a wall
\* nor another body has, after its n-th UpdatePhysics(dt), vy = GRAVITY * n * dt
\* and vx = 0.
C6_FreeFall ==
    pc = "idle" =>
        \A k \in Live :
            (hist[k].vx0 = 0 /\ hist[k].vy0 = 0 /\ ~hist[k].touched)
            => /\ s_balls[k].vy * TicksPerSec
                    = GRAVITY * VelPerPx * (nFrames - hist[k].born) * FrameDt
               /\ s_balls[k].vx = 0

\* a body is still in free fall after its 40th step
C6_Witness ==
    /\ pc = "idle" /\ nFrames >= 40
    /\ \E k \in Live : hist[k].vx0 = 0 /\ hist[k].vy0 = 0 /\ ~hist[k].touched
                       /\ hist[k].born = 0 /\ s_balls[k].vy > 0

\* |approx - exact / scale| <= 1/2: approx is exact / scale rounded to the grid
Rounded(approx, exact, scale) == 2 * Abs(approx * scale - exact) <= scale

\* the floor test bounces b without the resting-state damping
PlainBounce(b) ==
    /\ b.y + b.radius > FloorY
    /\ b.vy > 0
    /\ ~(b.vy < 120 * VelPerPx /\ b.vy * b.restitution < 6 * VelPerPx * Milli)

\* C7: when a body penetrates the floor with vy = V > 0 and the resting-state
\* damping does not apply, the floor test leaves vy = -V * restitution,
\* vx multiplied by friction and y = FLOOR_Y - radius.
C7_FloorRestitution ==
    (loc.stage = "floor" /\ PlainBounce(loc.pre))
    => LET b == s_balls[loc.i]
           p == loc.pre
       IN  /\ Rounded(b.vy, -(p.vy * p.restitution), Milli)
           /\ Rounded(b.vx, p.vx * p.friction, Milli)
           /\ b.y = FloorY - p.radius

\* a body moving sideways has bounced off the floor at more than 120 px/s
C7_Witness ==
    /\ loc.stage = "floor" /\ PlainBounce(loc.pre)
    /\ loc.pre.vy > 120 * VelPerPx /\ loc.pre.vx # 0 /\ s_balls[loc.i].vy < 0

\* the body of the scenario: RUBBER, radius 30, dropped from y = 50
IsScenarioBall(k) ==
    /\ s_ballCount = 1 /\ k = 0
    /\ s_balls[k].material = MAT_RUBBER /\ s_balls[k].radius = Px(30)
    /\ hist[k].born = 0 /\ hist[k].vy0 = 0

\* |v - target| <= 1/2 px/s, target in 1/10 px/s
About(v, target10) == 2 * Abs(10 * v - target10 * VelPerPx) <= 10 * VelPerPx

\* C8: a single RUBBER ball of radius 30 (mass 900) spawned at y = 50 with
\* vy = 0 and stepped with dt = 1/60 first touches the floor in step 50
\* (t = 0.833 s), where y is clamped to 390, the impact speed is about 816.6 and
\* vy after the impact is about -694.
C8_Scenario ==
    IsScenarioBall(0) =>
        /\ s_balls[0].mass = 900 * MassPerUnit
        /\ s_balls[0].restitution = 850
        /\ (pc = "idle" /\ nFrames < 50) => ~hist[0].touched
        /\ (pc = "idle" /\ nFrames >= 50) => hist[0].touched
        /\ (loc.stage = "floor" /\ nFrames = 50)
           => /\ loc.pre.y + loc.pre.radius > FloorY
              /\ s_balls[0].y = Px(390)
              /\ About(loc.pre.vy, 8166)
              /\ About(s_balls[0].vy, -6940)

\* the scenario's ball has just been through the floor test of step 50
C8_Witness ==
    /\ IsScenarioBall(0) /\ loc.stage = "floor" /\ nFrames = 50
    /\ hist[0].touched /\ s_balls[0].vy < 0

-----------------------------------------------------------------------------
(* Properties of the pair resolver *)

\* radiusA + radiusB - distance of two overlapping bodies at (ax, ay), (bx, by)
Penetration(ax, ay, bx, by, minDist) ==
    minDist - SqrtSafe((bx - ax) * (bx - ax) + (by - ay) * (by - ay))

\* C9: when UpdatePhysics returns, a pair that overlapped when it was entered
\* has a penetration depth of at most COLLISION_SLOP, or one no larger than at
\* entry (one pixel is allowed for rounding).
C9_PenetrationNeverGrows ==
    (pc = "idle" /\ loc.stage = "for_pair") =>
        \A p \in Live : \A q \in Live :
            LET a == s_balls[p]
                b == s_balls[q]
                minDist == a.radius + b.radius
                before == Penetration(hist[p].fx, hist[p].fy, hist[q].fx, hist[q].fy, minDist)
                after == Penetration(a.x, a.y, b.x, b.y, minDist)
            IN  (/\ p < q
                 /\ ~NoOverlap(hist[q].fx - hist[p].fx, hist[q].fy - hist[p].fy, minDist)
                 /\ ~NoOverlap(b.x - a.x, b.y - a.y, minDist))
                => (after <= COLLISION_SLOP + PosPerPx \/ after <= before + PosPerPx)

\* relative velocity along the contact normal after the pair step, and e times
\* the approach speed before it (velocity grid / Fine)
PostNormalSpeed == VelAlongNormal(s_balls[loc.i], s_balls[loc.j], loc.locals.nx, loc.locals.ny)
RestitutionBound == MulDiv(-loc.locals.velAlongNormal, loc.locals.e, Milli)

\* rounding allowance of the comparison: 0.1 % of the approach speed and four
\* steps of the velocity grid
RoundingSlack == (-loc.locals.velAlongNormal) \div Milli + 4 * Fine

\* the resting-pair rule ("Kill tiny jitter") has left a velocity component at 0
JitterKilled ==
    /\ loc.locals.resting
    /\ \E k \in {loc.i, loc.j} : s_balls[k].vx = 0 \/ s_balls[k].vy = 0

-----------------------------------------------------------------------------
(* Properties of the impulse *)

\* the pair of the last pair step met head-on: equal radius, material and
\* mass, restitution 1.0, opposite velocities along the contact normal,
\* approaching
HeadOnElastic ==
    /\ loc.stage = "pair" /\ loc.locals.impulse
    /\ loc.a0.radius = loc.b0.radius /\ loc.a0.material = loc.b0.material
    /\ loc.a0.mass = loc.b0.mass
    /\ loc.a0.restitution = Milli /\ loc.b0.restitution = Milli
    /\ loc.a0.vx = -loc.b0.vx /\ loc.a0.vy = -loc.b0.vy
    /\ loc.a0.vx * loc.locals.ny = loc.a0.vy * loc.locals.nx
    /\ loc.locals.velAlongNormal < 0

Exchanged ==
    /\ s_balls[loc.i].vx = loc.b0.vx /\ s_balls[loc.i].vy = loc.b0.vy
    /\ s_balls[loc.j].vx = loc.a0.vx /\ s_balls[loc.j].vy = loc.a0.vy

\* both bodies are on the floor and an exchanged velocity component is below
\* 2 px/s without being 0: the resting-pair rule zeroes it
ExchangeKilled ==
    /\ loc.locals.resting
    /\ \E v \in {loc.a0.vx, loc.a0.vy} : v # 0 /\ Abs(v) < 2 * VelPerPx

-----------------------------------------------------------------------------
(* Properties of the order of execution *)

BodyStages == <<"integrate", "floor", "wall", "visual", "cleanup">>

\* entry m of the log is a pair test that comes before entry n in index order
PairBefore(m, n) ==
    \/ log[m][2] < log[n][2]
    \/ (log[m][2] = log[n][2] /\ log[m][3] < log[n][3])

\* C13: when UpdatePhysics returns it has taken every body, in index order,
\* once through integration, floor test, wall test, squash update and cleanup
\* before the first pair test, and has then tested every pair i < j < count
\* once, in index order; the count does not change during the call.
C13_StepOrder ==
    /\ [](Returned =>
           LET n == s_ballCount
               nb == 5 * n
               np == (n * (n - 1)) \div 2
           IN  /\ Len(log) = nb + np
               /\ \A k \in 1 .. nb :
                    /\ log[k][1] = BodyStages[((k - 1) % 5) + 1]
                    /\ log[k][2] = (k - 1) \div 5
               /\ \A k \in (nb + 1) .. (nb + np) :
                    /\ log[k][1] = "pair"
                    /\ 0 <= log[k][2] /\ log[k][2] < log[k][3] /\ log[k][3] < n
                    /\ k > nb + 1 => PairBefore(k - 1, k))
    /\ [][pc # "idle" => (s_ballCount' = s_ballCount /\ loc'.stage # "spawn")]_vars

\* a call over at least three bodies has returned after a floor, wall or pair
\* contact
C13_Witness ==
    /\ Returned /\ s_ballCount >= 3
    /\ \E k \in 1 .. Len(log) : log[k][4]

-----------------------------------------------------------------------------
(* Properties of the first loop's stages *)

\* C14: the integration stage leaves vy = vy0 + GRAVITY * dt, x = x0 + vx0 * dt
\* and y = y0 + (vy0 + GRAVITY * dt) * dt, the position being advanced with the
\* velocity already updated, and leaves vx unchanged.
C14_SemiImplicit ==
    loc.stage = "integrate" =>
        LET b == s_balls[loc.i]
            p == loc.pre
        IN  /\ b.vy * TicksPerSec = p.vy * TicksPerSec + GRAVITY * VelPerPx * dt
            /\ b.vx = p.vx
            /\ Rounded(b.x - p.x, p.vx * dt * PosPerPx, VelPerPx * TicksPerSec)
            /\ Rounded(b.y - p.y, b.vy * dt * PosPerPx, VelPerPx * TicksPerSec)

\* a body moving sideways and upwards has been integrated: the old and the new
\* vy give different displacements
C14_Witness ==
    /\ loc.stage = "integrate" /\ loc.pre.vx # 0 /\ loc.pre.vy < 0
    /\ s_balls[loc.i].y # loc.pre.y

\* C15: a floor test that finds y + radius > FLOOR_Y while vy <= 0 sets
\* y = FLOOR_Y - radius and changes no other field of the body.
C15_FloorClampOnly ==
    (loc.stage = "floor" /\ loc.pre.y + loc.pre.radius > FloorY /\ loc.pre.vy <= 0)
    => s_balls[loc.i] = [loc.pre EXCEPT !.y = FloorY - loc.pre.radius]

\* a body below the floor line and rising has been through the floor test
C15_Witness ==
    /\ loc.stage = "floor" /\ loc.pre.y + loc.pre.radius > FloorY /\ loc.pre.vy < 0
    /\ s_balls[loc.i].y = FloorY - loc.pre.radius
    /\ s_balls[loc.i].vy = loc.pre.vy

\* the floor test of the last step bounced the body (vy > 0 below the floor line)
Bounced == loc.stage = "floor" /\ loc.pre.y + loc.pre.radius > FloorY /\ loc.pre.vy > 0

\* the rebound -vy * restitution and vx * friction that the bounce stores first
Rebound == -MulMilli(loc.pre.vy, loc.pre.restitution)
Rubbed == MulMilli(loc.pre.vx, loc.pre.friction)

\* |preImpactVy| < 120 and |rebound| < 6
NearlyResting == Abs(loc.pre.vy) < 120 * VelPerPx /\ Abs(Rebound) < 6 * VelPerPx

\* v * 0.80, and 0 if that is below 2 in magnitude
DampedAndSnapped(v) ==
    LET d == MulMilli(v, 800)
    IN  IF Abs(d) < 2 * VelPerPx THEN 0 ELSE d

\* C16: a bounce with |preImpactVy| < 120 and rebound |vy| < 6 leaves vx and vy
\* multiplied by 0.80 and set to 0 where that is below 2; any other bounce
\* leaves the plain rebound -vy * restitution and vx * friction, and a floor
\* test that does not bounce leaves vx and vy alone.
C16_RestingDamping ==
    loc.stage = "floor" =>
        LET b == s_balls[loc.i]
        IN  IF Bounced
            THEN IF NearlyResting
                 THEN /\ b.vy = DampedAndSnapped(Rebound)
                      /\ b.vx = DampedAndSnapped(Rubbed)
                 ELSE b.vy = Rebound /\ b.vx = Rubbed
            ELSE b.vy = loc.pre.vy /\ b.vx = loc.pre.vx

\* a slow impact was damped: vy was snapped to 0 while vx survived the damping
C16_Witness ==
    /\ Bounced /\ NearlyResting /\ Rebound # 0
    /\ s_balls[loc.i].vy = 0 /\ s_balls[loc.i].vx # 0

-----------------------------------------------------------------------------
(* Properties of the wall test and of the hard stop *)

\* the body of the last wall step reached past the left, the right wall
PastLeft == loc.stage = "wall" /\ loc.pre.x - loc.pre.radius < 0
PastRight == loc.stage = "wall" /\ loc.pre.x + loc.pre.radius > 640 * PosPerPx

\* -vx * restitution of the body before the wall test
Reflected == -MulMilli(loc.pre.vx, loc.pre.restitution)

\* the floor test of the same body fired just before the last wall step
FloorFiredBefore ==
    /\ Len(log) >= 2
    /\ log[Len(log) - 1] = <<"floor", loc.i, -1, TRUE>>

\* C17: the wall test puts a body that reached past the left wall at x = radius
\* and one that reached past the right wall at x = 640 - radius, in either case
\* with vx = -vx * restitution and no friction factor; it never changes y or
\* vy, and changes nothing of a body within the walls, whether or not the
\* floor test fired for the body in the same step.
C17_WallTest ==
    loc.stage = "wall" =>
        LET b == s_balls[loc.i]
        IN  /\ b.y = loc.pre.y /\ b.vy = loc.pre.vy
            /\ PastLeft => (b.x = loc.pre.radius /\ b.vx = Reflected)
            /\ PastRight => (b.x = 640 * PosPerPx - loc.pre.radius /\ b.vx = Reflected)
            /\ (~PastLeft /\ ~PastRight) => b = loc.pre

\* a moving body was reflected by a wall right after its floor test had fired,
\* with a restitution and a friction that make the two rules differ
C17_Witness ==
    /\ PastLeft \/ PastRight
    /\ FloorFiredBefore
    /\ s_balls[loc.i].vx = Reflected
    /\ Reflected # -MulMilli(MulMilli(loc.pre.vx, loc.pre.restitution), loc.pre.friction)

\* the body of the last hard-stop step had |vx| < 2.5 and |vy| < 2.5
WasSlow ==
    /\ loc.stage = "cleanup"
    /\ 2 * Abs(loc.pre.vx) < 5 * VelPerPx /\ 2 * Abs(loc.pre.vy) < 5 * VelPerPx

\* its lowest point was within half a pixel of the floor line, or below it
WasOnFloor ==
    /\ loc.stage = "cleanup"
    /\ 2 * (loc.pre.y + loc.pre.radius) >= 2 * FloorY - PosPerPx

\* C18: the hard stop that ends a body's stage sets vx and vy to 0 if
\* |vx| < 2.5 and |vy| < 2.5 while the body rests on the floor, and changes
\* nothing of any other body: a body off the floor is never zeroed by it.
C18_HardStop ==
    loc.stage = "cleanup" =>
        IF WasSlow /\ WasOnFloor
        THEN s_balls[loc.i] = [loc.pre EXCEPT !.vx = 0, !.vy = 0]
        ELSE s_balls[loc.i] = loc.pre

\* a body slow at the top of its flight passed the hard stop with its velocity
\* intact
C18_Witness ==
    /\ WasSlow /\ ~WasOnFloor
    /\ loc.pre.vx # 0 \/ loc.pre.vy # 0
    /\ s_balls[loc.i] = loc.pre

-----------------------------------------------------------------------------
(* Properties of the overlap test *)

\* the centres of the pair of the last pair step were at least
\* radiusA + radiusB apart
Apart ==
    /\ loc.stage = "pair"
    /\ NoOverlap(loc.b0.x - loc.a0.x, loc.b0.y - loc.a0.y, loc.a0.radius + loc.b0.radius)

\* the two bodies were closing in on each other (whole pixels, pixels per second)
Closing ==
    /\ loc.stage = "pair"
    /\ ((loc.b0.vx - loc.a0.vx) \div VelPerPx) * ((loc.b0.x - loc.a0.x) \div PosPerPx)
       + ((loc.b0.vy - loc.a0.vy) \div VelPerPx) * ((loc.b0.y - loc.a0.y) \div PosPerPx) < 0

\* C19: a pair step on two bodies whose centres are at least
\* radiusA + radiusB apart changes neither body: positions and velocities are
\* those before the step.
C19_NoOverlapSkipped ==
    Apart => (s_balls[loc.i] = loc.a0 /\ s_balls[loc.j] = loc.b0)

\* two live bodies that were closing in without touching were tested and left
\* alone
C19_Witness ==
    /\ Apart /\ Closing
    /\ loc.a0.active /\ loc.b0.active
    /\ s_balls[loc.i] = loc.a0 /\ s_balls[loc.j] = loc.b0

\* the pair of the last pair step were two live bodies with one centre
Coincident ==
    /\ loc.stage = "pair"
    /\ loc.a0.active /\ loc.b0.active
    /\ loc.a0.x = loc.b0.x /\ loc.a0.y = loc.b0.y
    /\ loc.a0.radius + loc.b0.radius > 0

\* C20: a pair step on two bodies whose centres coincide resolves them with
\* the normal (1, 0): the lower-indexed body moves toward -x or stays, the
\* other toward +x or stays, and neither y changes.
C20_DegenerateNormal ==
    Coincident =>
        /\ loc.locals.hit /\ loc.locals.degenerate
        /\ loc.locals.nx = Fine /\ loc.locals.ny = 0
        /\ s_balls[loc.i].x <= loc.a0.x /\ s_balls[loc.i].y = loc.a0.y
        /\ s_balls[loc.j].x >= loc.b0.x /\ s_balls[loc.j].y = loc.b0.y

\* two coincident bodies were pushed apart along x
C20_Witness ==
    /\ Coincident
    /\ s_balls[loc.i].x < loc.a0.x /\ s_balls[loc.i].y = loc.a0.y
    /\ s_balls[loc.j].x > loc.b0.x /\ s_balls[loc.j].y = loc.b0.y

-----------------------------------------------------------------------------
(* Properties of the positional correction *)

\* the pair of the last pair step overlapped
Overlapped == loc.stage = "pair" /\ loc.locals.hit

\* the distance between the centres of the pair before the step
CentreDist == UnitVector(loc.b0.x - loc.a0.x, loc.b0.y - loc.a0.y)[1]

\* max(0, overlap - 0.5) * 0.60 with overlap = radiusA + radiusB - dist
TotalPush ==
    LET overlap == loc.a0.radius + loc.b0.radius - CentreDist
    IN  (Max2(0, 2 * overlap - PosPerPx) * 600) \div 2000

\* the parts of the push for A and B: invMassA / (invMassA + invMassB) is
\* massB / (massA + massB)
PushOfA == (TotalPush * loc.b0.mass) \div (loc.a0.mass + loc.b0.mass)
PushOfB == (TotalPush * loc.a0.mass) \div (loc.a0.mass + loc.b0.mass)

\* p = q to two steps of the position grid and 0.1 %
NearPos(p, q) == 1000 * Abs(p - q) <= 2000 + Abs(q)

\* C21: a pair step moves an overlapping pair apart along its contact normal
\* by max(0, overlap - 0.5) * 0.60 in total, overlap = radiusA + radiusB - dist
\* for the distance dist of the centres, A by the part
\* invMassA / (invMassA + invMassB) and B by the part
\* invMassB / (invMassA + invMassB); a pair with overlap <= 0.5 keeps its
\* positions.
C21_PositionalCorrection ==
    Overlapped =>
        LET nx == loc.locals.nx
            ny == loc.locals.ny
        IN  /\ NearPos(loc.a0.x - s_balls[loc.i].x, SMulDiv(PushOfA, nx, Fine))
            /\ NearPos(loc.a0.y - s_balls[loc.i].y, SMulDiv(PushOfA, ny, Fine))
            /\ NearPos(s_balls[loc.j].x - loc.b0.x, SMulDiv(PushOfB, nx, Fine))
            /\ NearPos(s_balls[loc.j].y - loc.b0.y, SMulDiv(PushOfB, ny, Fine))
            /\ TotalPush = 0 =>
                  /\ s_balls[loc.i].x = loc.a0.x /\ s_balls[loc.i].y = loc.a0.y
                  /\ s_balls[loc.j].x = loc.b0.x /\ s_balls[loc.j].y = loc.b0.y

-----------------------------------------------------------------------------
(* Properties of the impulses *)

\* the relative velocity of the pair before the step, along the normal the
\* step used (velocity grid / Fine)
NormalSpeedBefore ==
    (loc.b0.vx - loc.a0.vx) * loc.locals.nx + (loc.b0.vy - loc.a0.vy) * loc.locals.ny

\* the pair step left the velocities of both bodies as they were
VelocitiesKept ==
    /\ s_balls[loc.i].vx = loc.a0.vx /\ s_balls[loc.i].vy = loc.a0.vy
    /\ s_balls[loc.j].vx = loc.b0.vx /\ s_balls[loc.j].vy = loc.b0.vy

\* C22: a pair step on an overlapping pair whose relative velocity along the
\* contact normal is > 0 leaves vx and vy of both bodies unchanged.
C22_SeparatingUntouched ==
    (Overlapped /\ NormalSpeedBefore > 0) => VelocitiesKept

\* a separating pair on the floor, sliding against each other, one velocity
\* component below 2: it was moved apart and no velocity was changed
C22_Witness ==
    /\ Overlapped /\ NormalSpeedBefore > 0
    /\ loc.locals.corr > 0
    /\ OnFloor(s_balls[loc.i]) /\ OnFloor(s_balls[loc.j])
    /\ \E v \in {loc.a0.vx, loc.a0.vy, loc.b0.vx, loc.b0.vy} : v # 0 /\ Abs(v) < 2 * VelPerPx
    /\ VelocitiesKept

\* the pair of the last pair step received the impulses
Impelled == loc.stage = "pair" /\ loc.locals.impulse

\* v after the normal impulse jn along n and the friction impulse jt along t
\* of the step, for the body with the given mass share
AfterBoth(v, jn, n, jt, t, share) ==
    ApplyImpulse(ApplyImpulse(v, jn, n, share), jt, t, share)

\* <<vx, vy>> of A and of B as the two impulses of the step leave them, before
\* the resting-pair rule
AfterImpulses ==
    LET l == loc.locals
        wa == ShareA(loc.a0, loc.b0)
        wb == ShareB(loc.a0, loc.b0)
    IN  <<AfterBoth(loc.a0.vx, l.jn, l.nx, l.jt, l.tx, wa),
          AfterBoth(loc.a0.vy, l.jn, l.ny, l.jt, l.ty, wa),
          AfterBoth(loc.b0.vx, -l.jn, l.nx, -l.jt, l.tx, wb),
          AfterBoth(loc.b0.vy, -l.jn, l.ny, -l.jt, l.ty, wb)>>

\* the relative velocity of the pair along the tangent the step used, before
\* the step and after the friction impulse (velocity grid / Fine)
TangentSpeedBefore ==
    (loc.b0.vx - loc.a0.vx) * loc.locals.tx + (loc.b0.vy - loc.a0.vy) * loc.locals.ty
TangentSpeedAfter ==
    (AfterImpulses[3] - AfterImpulses[1]) * loc.locals.tx
    + (AfterImpulses[4] - AfterImpulses[2]) * loc.locals.ty

\* rounding allowance of the tangential comparison: 0.1 % of the relative
\* speed and four steps of the velocity grid
TangentSlack ==
    (Abs(loc.b0.vx - loc.a0.vx) + Abs(loc.b0.vy - loc.a0.vy)) * (Fine \div Milli) + 4 * Fine

\* C23: for every pair that received the impulses, |jt| <= |jn| * (1 -
\* frictionA * frictionB), and after the friction impulse the relative
\* velocity along the tangent has not changed sign and is not larger than
\* before.
C23_FrictionClamp ==
    Impelled =>
        /\ Abs(loc.locals.jt)
             <= MulDiv(Abs(loc.locals.jn),
                       Milli - MulMilli(loc.a0.friction, loc.b0.friction), Milli)
        /\ TangentSpeedBefore >= -TangentSlack
        /\ TangentSpeedAfter >= -TangentSlack
        /\ TangentSpeedAfter <= TangentSpeedBefore + TangentSlack

\* a pair sliding at more than 10 px/s whose friction impulse was cut down to
\* the clamp and slowed the sliding
C23_Witness ==
    /\ Impelled
    /\ TangentSpeedBefore > 10 * VelPerPx * Fine
    /\ loc.locals.jt # 0 /\ Abs(loc.locals.jt) = loc.locals.maxF
    /\ TangentSpeedAfter < TangentSpeedBefore - TangentSlack

\* both bodies of the pair, where the step has put them, reach to within half
\* a pixel of the floor line or below it
BothOnFloor ==
    /\ loc.stage = "pair"
    /\ \A k \in {loc.i, loc.j} :
          2 * (s_balls[k].y + s_balls[k].radius) >= 2 * FloorY - PosPerPx

\* v if |v| >= 2, else 0
ZeroedBelowTwo(v) == IF Abs(v) < 2 * VelPerPx THEN 0 ELSE v

\* <<vx, vy>> of A and of B when the step ended
VelocitiesAfter ==
    <<s_balls[loc.i].vx, s_balls[loc.i].vy, s_balls[loc.j].vx, s_balls[loc.j].vy>>

\* C24: when a pair has received the impulses and both bodies rest on the
\* floor, every velocity component below 2 in magnitude ends at 0 and every
\* other component is kept; when a body of the pair is off the floor, every
\* component is kept as the impulses left it.
C24_RestingPair ==
    Impelled =>
        IF BothOnFloor
        THEN \A k \in 1 .. 4 : VelocitiesAfter[k] = ZeroedBelowTwo(AfterImpulses[k])
        ELSE VelocitiesAfter = AfterImpulses

\* one body on the floor, the other off it: a component below 2 survived
C24_Witness ==
    /\ Impelled /\ ~BothOnFloor
    /\ \E k \in {loc.i, loc.j} :
          2 * (s_balls[k].y + s_balls[k].radius) >= 2 * FloorY - PosPerPx
    /\ \E k \in 1 .. 4 : VelocitiesAfter[k] # 0 /\ Abs(VelocitiesAfter[k]) < 2 * VelPerPx

-----------------------------------------------------------------------------
(* Properties of a whole UpdatePhysics call *)

\* C25: when UpdatePhysics has returned, no live body reaches below the floor
\* line: y + radius <= FLOOR_Y, also for the bodies the positional correction
\* of a pair has moved in that call.
C25_NoBodyBelowFloor ==
    Returned =>
        \A k \in 0 .. (s_ballCount - 1) :
            s_balls[k].active => s_balls[k].y + s_balls[k].radius <= FloorY

-----------------------------------------------------------------------------
(* The velocity a wall leaves *)

\* C26: after a wall step that clamped the body at the left wall vx >= 0, and
\* after one that clamped it at the right wall vx <= 0.
C26_WallLeavesOutward ==
    /\ PastLeft => s_balls[loc.i].vx >= 0
    /\ PastRight => s_balls[loc.i].vx <= 0

-----------------------------------------------------------------------------
(* Properties of a body at rest *)

\* C27: once an UpdatePhysics call has returned with a body that no other body
\* touches lying on the floor with vx = vy = 0, every later call returns with
\* that body still at vx = vy = 0 and y = FLOOR_Y - radius.
C27_RestIsKept ==
    [][\A k \in Slots :
          (pc # "idle" /\ pc' = "idle" /\ hist[k].rest) => AtRest(k)']_vars

-----------------------------------------------------------------------------
(* Momentum of a pair *)

\* mass * d / 1000 for a change d of a velocity or a position
Weighted(mass, d) == MulDiv(d, mass, Milli)

\* the resting-pair rule has changed a velocity the impulses left
ZeroingApplied == BothOnFloor /\ VelocitiesAfter # AfterImpulses

\* what the grid allows the two weighted changes of a pair to differ by: each
\* change is rounded to the grid after each impulse and the mass shares carry
\* four digits, which is 1/Fine of the impulse
MomentumSlack(impulse) ==
    ((loc.a0.mass + loc.b0.mass) * (3 + impulse \div Fine)) \div Milli + 2

\* C28: the impulses of a pair step to which the resting-pair rule does not
\* apply leave massA * vA + massB * vB unchanged in x and in y, and the
\* positional correction of an overlapping pair leaves massA * posA +
\* massB * posB unchanged, to the rounding of the grid.
C28_MomentumConserved ==
    LET ma == loc.a0.mass
        mb == loc.b0.mass
        a == s_balls[loc.i]
        b == s_balls[loc.j]
    IN  /\ (Impelled /\ ~ZeroingApplied) =>
              LET allow == MomentumSlack((Abs(loc.locals.jn) + Abs(loc.locals.jt)) \div Fine)
              IN  /\ Abs(Weighted(ma, a.vx - loc.a0.vx) + Weighted(mb, b.vx - loc.b0.vx))
                       <= allow
                  /\ Abs(Weighted(ma, a.vy - loc.a0.vy) + Weighted(mb, b.vy - loc.b0.vy))
                       <= allow
        /\ Overlapped =>
              LET allow == MomentumSlack(loc.locals.corr \div Milli)
              IN  /\ Abs(Weighted(ma, a.x - loc.a0.x) + Weighted(mb, b.x - loc.b0.x))
                       <= allow
                  /\ Abs(Weighted(ma, a.y - loc.a0.y) + Weighted(mb, b.y - loc.b0.y))
                       <= allow

\* two bodies, one more than twice as heavy as the other, off the floor:
\* the impulses changed the lighter one's velocity by more than 30 px/s and
\* the correction moved it by more than a pixel
C28_Witness ==
    /\ Impelled /\ ~BothOnFloor
    /\ loc.a0.mass > 2 * loc.b0.mass
    /\ Abs(s_balls[loc.j].vx - loc.b0.vx) + Abs(s_balls[loc.j].vy - loc.b0.vy) > 30 * VelPerPx
    /\ Abs(s_balls[loc.j].x - loc.b0.x) + Abs(s_balls[loc.j].y - loc.b0.y) > PosPerPx

-----------------------------------------------------------------------------
(* BallScene_Update *)

\* the ball pool and the position inside UpdatePhysics
poolVars == <<s_active, s_balls, s_ballCount, s_currentMaterial, pc, dt, i, j, loc,
             nFrames, nInits, hist, log>>

\* "s_ballCount < 12" and "tMs - lastSpawnTime > 2500"
AutoSpawnCap == 12
AutoSpawnMs == 2500

\* TimeMs() while GetTickCount() returns t
TimeMs(t) == DwSub(t, s_startTime)

\* the condition of the auto-spawn at scene time tMs
AutoSpawnDue(tMs) ==
    s_ballCount < AutoSpawnCap /\ DwLess(DwOf(AutoSpawnMs), DwSub(tMs, lastSpawnTime))

\* <<x, y, vx, radius>> as the four rand() calls of a spawn give them:
\* 100 + rand() % 440, 50 + rand() % 100, -200 + rand() % 400, 25 + rand() % 25
RandArgs ==
    {<<Px(100), Px(50), PxS(-200), Px(25)>>, <<Px(539), Px(149), PxS(199), Px(49)>>}

\* what the pad may report
ButtonSets == {{}, {BTN_A}, {BTN_X}, {BTN_Y}}

\* BallScene_Update with the pad reporting buttons, r1 the random numbers of
\* the auto-spawn and r2 those of the X-button spawn, up to the entry of
\* UpdatePhysics(1.0f / 60.0f); the Step actions run the call to its return
BallScene_UpdateBody(buttons, r1, r2) ==
    LET tMs == TimeMs(tick)
        auto == AutoSpawnDue(tMs)
        s1 == IF auto
              THEN SpawnInto(s_balls, s_ballCount, r1[1], r1[2], r1[3], 0, r1[4],
                             autoSpawnMaterial % MAT_COUNT)
              ELSE <<s_balls, s_ballCount>>
        pressX == BTN_X \in buttons /\ BTN_X \notin s_lastButtons
        s2 == IF pressX
              THEN SpawnInto(s1[1], s1[2], r2[1], r2[2], r2[3], 0, r2[4], s_currentMaterial)
              ELSE s1
        pressY == BTN_Y \in buttons /\ BTN_Y \notin s_lastButtons
    IN  /\ pc = "idle"
        /\ lastSpawnTime' = IF auto THEN tMs ELSE lastSpawnTime
        /\ autoSpawnMaterial' = IF auto THEN autoSpawnMaterial + 1 ELSE autoSpawnMaterial
        /\ spawnRef' = IF auto THEN tick ELSE spawnRef
        /\ s_balls' = s2[1]
        /\ s_ballCount' = s2[2]
        /\ s_currentMaterial' = IF pressY THEN (s_currentMaterial + 1) % MAT_COUNT
                                ELSE s_currentMaterial
        /\ s_lastButtons' = buttons
        /\ pc' = "for_body"
        /\ dt' = FrameDt
        /\ i' = 0
        /\ loc' = [stage |-> "update", auto |-> auto, count |-> s_ballCount,
                   since |-> DwSub(tick, spawnRef)]
        /\ nFrames' = nFrames + 1
        /\ hist' = [k \in 0 .. (MAX_BALLS - 1) |->
                     IF s_ballCount <= k /\ k < s_ballCount'
                     THEN [born |-> nFrames, touched |-> FALSE,
                           vx0 |-> s_balls'[k].vx, vy0 |-> s_balls'[k].vy,
                           fx |-> s_balls'[k].x, fy |-> s_balls'[k].y, rest |-> FALSE]
                     ELSE [hist[k] EXCEPT !.fx = s_balls[k].x, !.fy = s_balls[k].y,
                                          !.rest = RestsAlone(k)]]
        /\ log' = <<>>
        /\ UNCHANGED <<s_active, j, nInits, s_startTime>>

\* BallScene_Update called on its own
BallScene_Update(buttons, r1, r2) ==
    BallScene_UpdateBody(buttons, r1, r2) /\ UNCHANGED mainVars

\* GetTickCount() moves on by d milliseconds
Tick(d) ==
    /\ pc = "idle"
    /\ tick' = DwAdd(tick, DwOf(d))
    /\ nTicks' = nTicks + 1
    /\ UNCHANGED <<poolVars, sceneStatics, g_demo, now, lastButtons, requestSkip, mpc>>

-----------------------------------------------------------------------------
(* Runs of the scene through its interface: BallScene_Init, then frames of
   BallScene_Update, then BallScene_Init again *)

UpdInits == 2        \* BallScene_Init calls in a behaviour
UpdFrames == 2       \* BallScene_Update calls in a behaviour
MaxTicks == 2        \* advances of the tick count in a behaviour

\* the tick count when the program starts: shortly after boot, or shortly
\* before the count wraps
StartTicks == {DwOf(5000), <<Half - 1, Half - 3000>>}

\* by how much the tick count advances between two readings
TickSteps == {17, 2600}

InitUpdate == PoolIdle /\ StaticsInit /\ \E t \in StartTicks : MainIdle(t)

NextUpdate ==
    \/ (nTicks < MaxTicks /\ \E d \in TickSteps : Tick(d))
    \/ (nInits < UpdInits /\ BallScene_Init)
    \/ (/\ nInits > 0
        /\ nFrames < UpdFrames
        /\ \E b \in ButtonSets : \E r1 \in RandArgs : \E r2 \in RandArgs :
              BallScene_Update(b, r1, r2))
    \/ Step

SpecUpdate == InitUpdate /\ [][NextUpdate]_vars

-----------------------------------------------------------------------------
(* C29 *)

\* the BallScene_Update call that has just entered UpdatePhysics spawned a
\* body on the timer
AutoSpawned == loc.stage = "update" /\ loc.auto

\* C29: BallScene_Update spawns a body on the timer only if the count is below
\* 12 and more than 2500 ms, taken modulo 2^32, have passed since the previous
\* timed spawn or, if there was none after the last BallScene_Init, since that
\* BallScene_Init
C29_AutoSpawnTiming ==
    AutoSpawned => /\ loc.count < AutoSpawnCap
                   /\ DwLess(DwOf(AutoSpawnMs), loc.since)

-----------------------------------------------------------------------------
(* The scene driver of main.cpp *)

SCENE_INTRO == 0
SCENE_PLASMA == 1
SCENE_BALL == 2
SCENE_COUNT == 12

FADE_DURATION_MS == 1000

\* NextScene of main.cpp
NextSceneId(id) == IF id + 1 >= SCENE_COUNT THEN 0 ELSE id + 1

\* the duration of scene id in milliseconds, in the order of DemoSceneId; the
\* switch has no case for SCENE_BALL, which gets the default
SceneDurationMs(id) ==
    <<30000, 20000, 20000, 20000, 25000, 22000, 25000, 22000, 26000, 23000, 25000,
      24000>>[id + 1]

BeginTransitionTo(d, nextScene, nowTicks) ==
    IF d.inTransition
    THEN d
    ELSE [d EXCEPT !.inTransition = TRUE, !.transitionPhase = 0, !.next = nextScene,
                   !.transitionStartTicks = nowTicks, !.overlayAlpha = 0]

\* "elapsed >= FADE_DURATION_MS"
FadeOver(d, nowTicks) ==
    ~DwLess(DwSub(nowTicks, d.transitionStartTicks), DwOf(FADE_DURATION_MS))

\* UpdateDemoState reaches ShutdownScene(g_demo.current), InitScene(g_demo.next)
SwapDue(d, nowTicks) == d.inTransition /\ d.transitionPhase = 0 /\ FadeOver(d, nowTicks)

\* "(int)((elapsed * 255U) / FADE_DURATION_MS)" for elapsed < FADE_DURATION_MS
FadeAlpha(d, nowTicks) ==
    (DwSub(nowTicks, d.transitionStartTicks)[2] * 255) \div FADE_DURATION_MS

\* g_demo after UpdateDemoState(nowTicks, skip)
UpdateDemoState(d, nowTicks, skip) ==
    IF ~d.inTransition
    THEN IF skip
         THEN BeginTransitionTo(d, NextSceneId(d.current), nowTicks)
         ELSE IF ~DwLess(DwSub(nowTicks, d.sceneStartTicks),
                         DwOf(SceneDurationMs(d.current)))
              THEN BeginTransitionTo(d, NextSceneId(d.current), nowTicks)
              ELSE d
    ELSE IF d.transitionPhase = 0
         THEN IF FadeOver(d, nowTicks)
              THEN [d EXCEPT !.overlayAlpha = 255, !.current = d.next,
                             !.sceneStartTicks = nowTicks, !.transitionPhase = 1,
                             !.transitionStartTicks = nowTicks]
              ELSE [d EXCEPT !.overlayAlpha = FadeAlpha(d, nowTicks)]
         ELSE IF FadeOver(d, nowTicks)
              THEN [d EXCEPT !.overlayAlpha = 0, !.inTransition = FALSE,
                             !.transitionPhase = 0]
              ELSE [d EXCEPT !.overlayAlpha = 255 - FadeAlpha(d, nowTicks)]

\* the ball scene updated whenever it is current, fading or not
BallSceneRuns_InFade(d) == d.current = SCENE_BALL

\* "g_demo.current == SCENE_BALL && !g_demo.inTransition"
BallSceneRuns(d) == d.current = SCENE_BALL /\ ~d.inTransition

\* one iteration of the main loop from "DWORD now = GetTickCount()" to the
\* scene updates; of these only BallScene_Update is modelled, and with it the
\* iteration stays at the call of UpdatePhysics until the Step actions have
\* run it to its return
MainLoopTop(buttons, r1, r2) ==
    /\ mpc = "top"
    /\ pc = "idle"
    /\ now' = tick
    /\ lastButtons' = buttons
    /\ requestSkip' = (BTN_A \in buttons /\ BTN_A \notin lastButtons)
    /\ mpc' = "bottom"
    /\ IF BallSceneRuns(g_demo)
       THEN BallScene_UpdateBody(buttons, r1, r2)
       ELSE UNCHANGED <<poolVars, sceneStatics>>
    /\ UNCHANGED <<tick, nTicks, g_demo>>

\* BallScene_Shutdown
BallScene_ShutdownBody ==
    /\ s_active' = FALSE
    /\ UNCHANGED <<s_balls, s_ballCount, s_currentMaterial, pc, dt, i, j, loc, nFrames,
                   nInits, hist, log, sceneStatics>>

\* the rest of the iteration: UpdateDemoState(now, requestSkip) with the
\* ShutdownScene and InitScene calls it makes
MainLoopBottom ==
    /\ mpc = "bottom"
    /\ pc = "idle"
    /\ g_demo' = UpdateDemoState(g_demo, now, requestSkip)
    /\ mpc' = "top"
    /\ IF SwapDue(g_demo, now) /\ g_demo.next = SCENE_BALL
       THEN BallScene_InitBody
       ELSE IF SwapDue(g_demo, now) /\ g_demo.current = SCENE_BALL
            THEN BallScene_ShutdownBody
            ELSE UNCHANGED <<poolVars, sceneStatics>>
    /\ UNCHANGED <<tick, nTicks, now, lastButtons, requestSkip>>

DemoFrames == 2      \* BallScene_Update calls in a behaviour
DemoTicks == 5       \* advances of the tick count in a behaviour

\* by how much the tick count advances from one iteration of the main loop to
\* the next
DemoTickSteps == {1000, 20000}

\* main at the head of its loop, the tick count being t: the intro scene is
\* current and initialised
MainStarted(t) ==
    /\ tick = t
    /\ nTicks = 0
    /\ g_demo = [current |-> SCENE_INTRO, next |-> SCENE_PLASMA, inTransition |-> FALSE,
                 transitionPhase |-> 0, sceneStartTicks |-> t,
                 transitionStartTicks |-> t, overlayAlpha |-> 0]
    /\ now = t
    /\ lastButtons = {}
    /\ requestSkip = FALSE
    /\ mpc = "top"

InitDemo == PoolIdle /\ StaticsInit /\ \E t \in StartTicks : MainStarted(t)

NextDemo ==
    \/ (mpc = "top" /\ nTicks < DemoTicks /\ \E d \in DemoTickSteps : Tick(d))
    \/ (/\ BallSceneRuns(g_demo) => nFrames < DemoFrames
        /\ \E b \in ButtonSets : \E r \in RandArgs : MainLoopTop(b, r, r))
    \/ MainLoopBottom
    \/ Step

SpecDemo == InitDemo /\ [][NextDemo]_vars

-----------------------------------------------------------------------------
(* C30 *)

\* the ball scene is the current scene and no fade is in progress
BallCurrentNoFade == g_demo.current = SCENE_BALL /\ ~g_demo.inTransition

\* a step of the main loop from its head to the call of UpdateDemoState
FrameStarts == mpc = "top" /\ mpc' = "bottom"

\* a step that changes a field of a body or the count
PoolChanges == <<s_balls, s_ballCount>>' # <<s_balls, s_ballCount>>

\* the step is BallScene_Init called because the ball scene becomes current
BallSceneEntered ==
    g_demo.current # SCENE_BALL /\ g_demo'.current = SCENE_BALL /\ loc'.stage = "init"

\* C30: every iteration of the main loop starts exactly one UpdatePhysics call
\* if the ball scene is current and no fade is in progress, and none otherwise;
\* no other step starts one; and while another scene is current or a fade is
\* in progress the bodies and the count change only in the BallScene_Init that
\* makes the ball scene current
C30_OncePerFrame ==
    [][/\ FrameStarts => nFrames' = nFrames + (IF BallCurrentNoFade THEN 1 ELSE 0)
       /\ ~FrameStarts => nFrames' = nFrames
       /\ (PoolChanges /\ ~BallCurrentNoFade) => BallSceneEntered]_vars

\* the ball scene is fading out after two frames of it have run, and an
\* iteration of the main loop has passed its scene updates during the fade
C30_Witness ==
    /\ g_demo.current = SCENE_BALL
    /\ g_demo.inTransition
    /\ g_demo.transitionPhase = 0
    /\ mpc = "bottom"
    /\ nFrames >= 2

====
